---- MODULE Spec2Model ----
(***************************************************************************)
(* Model of src/src/f1_data.py: get_race_telemetry, the telemetry          *)
(* synchronisation / resampling / ranking pipeline, together with its      *)
(* persisted JSON cache.                                                   *)
(*                                                                         *)
(* Numbers.  Session times are integers counting quanta of 1/(FPS*SubTicks)*)
(* seconds, so that the step DT = 1/FPS is SubTicks quanta.  Raw channel   *)
(* samples are integers.  Values produced by interpolation are exact       *)
(* rationals <<n, d>> (d > 0, lowest terms).  Floating-point rounding      *)
(* error is not modelled.                                                  *)
(*                                                                         *)
(* A Python dict is an insertion-ordered association list: a sequence of   *)
(* <<key, value>> pairs.                                                   *)
(***************************************************************************)
EXTENDS Integers, Sequences, FiniteSets, TLC

\* ------------------------------------------------------------------ bounds
MaxDrivers == 2
MaxLaps == 3
MaxEvents == 2
MaxCalls == 2
SubTicks == 2

\* ------------------------------------------------------- program constants
FPS == 25
\* DT = 1 / FPS seconds, i.e. SubTicks time quanta
DT == SubTicks

\* Python None is the empty tuple, any other optional value v the 1-tuple <<v>>
None == <<>>
Some(v) == <<v>>

\* ------------------------------------------------------------ arithmetic
Abs(a) == IF a < 0 THEN -a ELSE a

RECURSIVE GCD(_, _)
GCD(a, b) == IF b = 0 THEN a ELSE GCD(b, a % b)

\* the rational n/d in lowest terms with a positive denominator
Norm(n, d) ==
    LET g == GCD(Abs(n), Abs(d))
        s == IF d < 0 THEN -1 ELSE 1
    IN  <<(s * n) \div g, (s * d) \div g>>

Q(i) == <<i, 1>>

QLess(a, b) == a[1] * b[2] < b[1] * a[2]

Min(a, b) == IF a < b THEN a ELSE b
Max(a, b) == IF a > b THEN a ELSE b

RECURSIVE SeqMin(_)
SeqMin(s) == IF Len(s) = 1 THEN s[1] ELSE Min(s[1], SeqMin(Tail(s)))

RECURSIVE SeqMax(_)
SeqMax(s) == IF Len(s) = 1 THEN s[1] ELSE Max(s[1], SeqMax(Tail(s)))

\* Python round() of a float: nearest integer, halves to the even neighbour
round(q) ==
    LET fl == q[1] \div q[2]
        r2 == 2 * (q[1] % q[2])
    IN  IF r2 < q[2] THEN fl
        ELSE IF r2 > q[2] THEN fl + 1
        ELSE IF fl % 2 = 0 THEN fl ELSE fl + 1

\* Python round(x, 4)
round4(q) == Norm(round(<<q[1] * 10000, q[2]>>), 10000)

\* ------------------------------------------------------------ sequences
RECURSIVE Concat(_)
Concat(ss) == IF ss = <<>> THEN <<>> ELSE Head(ss) \o Concat(Tail(ss))

Full(n, v) == [k \in 1..n |-> v]

IndexOrders(n) ==
    {p \in [1..n -> 1..n] : \A a, b \in 1..n : a # b => p[a] # p[b]}

\* arr[order]
Take(arr, order) == [k \in 1..Len(order) |-> arr[order[k]]]

RECURSIVE SortOrders(_, _)
SortOrders(t, remaining) ==
    IF remaining = {} THEN {<<>>}
    ELSE LET m == CHOOSE v \in {t[j] : j \in remaining} :
                      \A j \in remaining : v <= t[j]
         IN  UNION {{<<i>> \o r : r \in SortOrders(t, remaining \ {i})} :
                        i \in {j \in remaining : t[j] = m}}

\* np.argsort (default kind, not a stable sort): every index order that sorts
\* t ascending; elements with equal keys may come out in either order
argsort(t) == SortOrders(t, 1..Len(t))

\* ---------------------------------------------------------------- dicts
DictKeySet(d) == {d[k][1] : k \in 1..Len(d)}
DictGet(d, key) == (CHOOSE k \in 1..Len(d) : d[k][1] = key) \* index
DictVal(d, key) == d[DictGet(d, key)][2]
\* d[key] = val: a new key goes last, an existing key keeps its place
DictSet(d, key, val) ==
    IF key \in DictKeySet(d)
    THEN [d EXCEPT ![DictGet(d, key)] = <<key, val>>]
    ELSE Append(d, <<key, val>>)

\* ------------------------------------------------- provider data (inputs)
\* A lap's telemetry frame (lap.get_telemetry()): the columns it has, its
\* rows, and the number of dimensions to_numpy() gives for the X column
\* (2 when the frame holds the column twice).
Required == {"SessionTime", "X", "Y", "Distance"}
Optional == {"RelativeDistance", "Speed", "SpeedKph", "nGear", "DRS"}
AllCols == Required \cup Optional

Column(lap_tel, name) == [k \in 1..Len(lap_tel.rows) |-> lap_tel.rows[k][name]]

\* DataFrame.empty: no rows or no columns
empty(lap_tel) == lap_tel.rows = <<>> \/ lap_tel.cols = {}

\* src/lib/tyres.get_tyre_compound_int: the compound's integer code
get_tyre_compound_int(compound) ==
    CASE compound = "SOFT" -> 0
      [] compound = "MEDIUM" -> 1
      [] compound = "HARD" -> 2
      [] OTHER -> -1

\* ------------------------------------------------- 1. per-lap extraction
\* the outcome of an expression: its value, or the exception it raises
Ok(v) == [exc |-> "", v |-> v]
Raise(e) == [exc |-> e, v |-> <<>>]

\* np.zeros_like(t_lap).to_numpy(): an ndarray has no to_numpy
ZerosFallback(t_lap) == Raise("AttributeError")

\* lap_tel.get(name, np.zeros_like(t_lap)).to_numpy() for nGear and DRS
GetOrZeros(lap_tel, name, t_lap) ==
    IF name \in lap_tel.cols THEN Ok(Column(lap_tel, name)) ELSE ZerosFallback(t_lap)

\* lap_tel.get("Speed", lap_tel.get("SpeedKph", None)).to_numpy()
GetSpeed(lap_tel) ==
    IF "Speed" \in lap_tel.cols THEN Ok(Column(lap_tel, "Speed"))
    ELSE IF "SpeedKph" \in lap_tel.cols THEN Ok(Column(lap_tel, "SpeedKph"))
    ELSE Raise("AttributeError")

\* lap_tel.get("RelativeDistance", lap_tel["Distance"]).to_numpy()
GetRelDist(lap_tel) ==
    IF "RelativeDistance" \in lap_tel.cols THEN Column(lap_tel, "RelativeDistance")
    ELSE Column(lap_tel, "Distance")

\* lines 135-142: the channel arrays of one non-empty lap, or the exception
\* the statements raise
Channels(lap_tel) ==
    IF ~(Required \subseteq lap_tel.cols) THEN Raise("KeyError")
    ELSE LET t_lap == Column(lap_tel, "SessionTime")
             speed == GetSpeed(lap_tel)
             gear == GetOrZeros(lap_tel, "nGear", t_lap)
             drs == GetOrZeros(lap_tel, "DRS", t_lap)
         IN  IF speed.exc # "" THEN Raise(speed.exc)
             ELSE IF gear.exc # "" THEN Raise(gear.exc)
             ELSE IF drs.exc # "" THEN Raise(drs.exc)
             ELSE Ok([t |-> t_lap,
                      x |-> Column(lap_tel, "X"),
                      y |-> Column(lap_tel, "Y"),
                      d |-> Column(lap_tel, "Distance"),
                      rd |-> GetRelDist(lap_tel),
                      speed |-> speed.v,
                      gear |-> gear.v,
                      drs |-> drs.v,
                      xdim |-> lap_tel.xdim])

\* faulty variant of NextOffset: the lap's first cumulative distance
NextOffset_First(race_d_lap, total_dist_so_far) ==
    IF Len(race_d_lap) > 0 THEN race_d_lap[1] ELSE total_dist_so_far

\* line 158
NextOffset(race_d_lap, total_dist_so_far) ==
    IF Len(race_d_lap) > 0 THEN race_d_lap[Len(race_d_lap)] ELSE total_dist_so_far

EmptyParts ==
    [t |-> <<>>, x |-> <<>>, y |-> <<>>, dist |-> <<>>, rel_dist |-> <<>>,
     lap |-> <<>>, tyre |-> <<>>, speed |-> <<>>, gear |-> <<>>, drs |-> <<>>,
     xdim |-> <<>>]

\* lines 144-158: append one lap's arrays to parts
AppendLap(acc, lap, ch) ==
    LET n == Len(ch.t)
        race_d_lap == [k \in 1..n |-> acc.total_dist_so_far + ch.d[k]]
        p == acc.parts
    IN  [acc EXCEPT
           !.parts = [t |-> Append(p.t, ch.t),
                      x |-> Append(p.x, ch.x),
                      y |-> Append(p.y, ch.y),
                      dist |-> Append(p.dist, race_d_lap),
                      rel_dist |-> Append(p.rel_dist, ch.rd),
                      lap |-> Append(p.lap, Full(n, lap.LapNumber)),
                      tyre |-> Append(p.tyre,
                                  Full(n, get_tyre_compound_int(lap.Compound))),
                      speed |-> Append(p.speed, ch.speed),
                      gear |-> Append(p.gear, ch.gear),
                      drs |-> Append(p.drs, ch.drs),
                      xdim |-> Append(p.xdim, ch.xdim)],
           !.total_dist_so_far = NextOffset(race_d_lap, acc.total_dist_so_far)]

\* lines 124-158: the body of the lap loop for one lap
LapBody(acc, lap) ==
    IF acc.exc # "" THEN acc
    ELSE IF lap.tel.raises THEN acc                      \* except: continue
    ELSE IF empty(lap.tel) THEN acc                      \* continue
    ELSE LET ch == Channels(lap.tel)
         IN  IF ch.exc # "" THEN [acc EXCEPT !.exc = ch.exc]
             ELSE AppendLap(acc, lap, ch.v)

\* lines 117-158: for _, lap in laps_driver.iterlaps()
RECURSIVE LapLoop(_, _)
LapLoop(acc, laps) ==
    IF laps = <<>> THEN acc ELSE LapLoop(LapBody(acc, Head(laps)), Tail(laps))

AssembleLaps(laps) ==
    LapLoop([parts |-> EmptyParts, total_dist_so_far |-> 0, exc |-> ""], laps)

\* lines 165-181: np.concatenate raises when the arrays of a channel do not
\* all have the same number of dimensions
ConcatRaises(parts) == \E a, b \in 1..Len(parts.xdim) : parts.xdim[a] # parts.xdim[b]

\* lines 165-197: the driver's trace, every channel reordered by `order`
Trace(parts, order) ==
    [t |-> Take(Concat(parts.t), order),
     x |-> Take(Concat(parts.x), order),
     y |-> Take(Concat(parts.y), order),
     dist |-> Take(Concat(parts.dist), order),
     rel_dist |-> Take(Concat(parts.rel_dist), order),
     lap |-> Take(Concat(parts.lap), order),
     tyre |-> Take(Concat(parts.tyre), order),
     speed |-> Take(Concat(parts.speed), order),
     gear |-> Take(Concat(parts.gear), order),
     drs |-> Take(Concat(parts.drs), order),
     xdim |-> parts.xdim[1]]

\* lines 199-202
AccumulateBounds(g, t_all) ==
    [min |-> IF g.min = None THEN Some(SeqMin(t_all))
             ELSE Some(Min(g.min[1], SeqMin(t_all))),
     max |-> IF g.max = None THEN Some(SeqMax(t_all))
             ELSE Some(Max(g.max[1], SeqMax(t_all)))]

\* faulty variant of LapNumberMax: the number of laps, not the highest number
LapNumberMax_Count(laps) == Len(laps)

\* line 115: int(laps_driver.LapNumber.max())
LapNumberMax(laps) == SeqMax([k \in 1..Len(laps) |-> laps[k].LapNumber])

\* ------------------------------------------------------- 2. the timeline
\* faulty variant of arange_len: the stop counted as an inclusive endpoint
arange_len_Inclusive(start, stop, step) == ((stop - start) \div step) + 1

\* len(np.arange(start, stop, step)) = ceil((stop - start) / step)
arange_len(start, stop, step) == (stop - start + step - 1) \div step

\* line 208: np.arange(global_t_min, global_t_max + DT, DT) - global_t_min
Timeline(global_t_min, global_t_max) ==
    [k \in 1..arange_len(global_t_min, global_t_max + DT, DT) |->
        (global_t_min + (k - 1) * DT) - global_t_min]

\* ------------------------------------------------------- 3. resampling
\* faulty variant of interp: right of the samples the value is 0 (right=0)
interp_RightZero(x, xp, fp) ==
    LET n == Len(xp)
    IN  IF x < xp[1] THEN Q(fp[1])
        ELSE IF x > xp[n] THEN Q(0)
        ELSE LET j == CHOOSE k \in 1..n :
                          xp[k] <= x /\ \A m \in (k + 1)..n : xp[m] > x
             IN  IF j = n \/ xp[j] = x THEN Q(fp[j])
                 ELSE Norm(fp[j] * (xp[j + 1] - xp[j])
                             + (fp[j + 1] - fp[j]) * (x - xp[j]),
                           xp[j + 1] - xp[j])

\* np.interp(x, xp, fp) for one x, xp ascending: fp[1] left of xp, fp[n]
\* right of it, and between two samples the line through them; j is the last
\* index with xp[j] <= x
interp(x, xp, fp) ==
    LET n == Len(xp)
    IN  IF x < xp[1] THEN Q(fp[1])
        ELSE IF x > xp[n] THEN Q(fp[n])
        ELSE LET j == CHOOSE k \in 1..n :
                          xp[k] <= x /\ \A m \in (k + 1)..n : xp[m] > x
             IN  IF j = n \/ xp[j] = x THEN Q(fp[j])
                 ELSE Norm(fp[j] * (xp[j + 1] - xp[j])
                             + (fp[j + 1] - fp[j]) * (x - xp[j]),
                           xp[j + 1] - xp[j])

\* line 219: np.interp(timeline, t_sorted, arr[order])
_safe_interp(timeline, t_sorted, arr, order) ==
    [k \in 1..Len(timeline) |-> interp(timeline[k], t_sorted, Take(arr, order))]

\* lines 214-232 for one driver and one outcome `order` of np.argsort(t);
\* np.interp raises ValueError for an fp that is not 1-D
ResampleDriver(data, global_t_min, timeline, order) ==
    LET t == [k \in 1..Len(data.t) |-> data.t[k] - global_t_min]
        t_sorted == Take(t, order)
    IN  IF data.xdim # 1 THEN Raise("ValueError")
        ELSE Ok([t |-> timeline,
                 x |-> _safe_interp(timeline, t_sorted, data.x, order),
                 y |-> _safe_interp(timeline, t_sorted, data.y, order),
                 dist |-> _safe_interp(timeline, t_sorted, data.dist, order),
                 rel_dist |-> _safe_interp(timeline, t_sorted, data.rel_dist, order),
                 lap |-> _safe_interp(timeline, t_sorted, data.lap, order),
                 tyre |-> _safe_interp(timeline, t_sorted, data.tyre, order),
                 speed |-> _safe_interp(timeline, t_sorted, data.speed, order),
                 gear |-> _safe_interp(timeline, t_sorted, data.gear, order),
                 drs |-> _safe_interp(timeline, t_sorted, data.drs, order)])

\* lines 211-234: every resampled_data the loop can end with (one np.argsort
\* outcome per driver); a driver whose resampling raises gets no entry
RECURSIVE ResampleLoop(_, _, _)
ResampleLoop(dd, global_t_min, timeline) ==
    IF dd = <<>> THEN {<<>>}
    ELSE LET code == dd[Len(dd)][1]
             data == dd[Len(dd)][2]
             before == ResampleLoop(SubSeq(dd, 1, Len(dd) - 1), global_t_min, timeline)
             shifted == [k \in 1..Len(data.t) |-> data.t[k] - global_t_min]
         IN  UNION {{LET r == ResampleDriver(data, global_t_min, timeline, order)
                     IN  IF r.exc # "" THEN rd ELSE DictSet(rd, code, r.v) :
                        order \in argsort(shifted)} : rd \in before}

\* ------------------------------------------------------- 4. track status
\* faulty variant of StatusBody: the previous interval is never closed
StatusBody_NoClose(acc, status, global_t_min) ==
    IF acc.exc # "" THEN acc
    ELSE IF status.Time = None THEN [acc EXCEPT !.exc = "TypeError"]
    ELSE [acc EXCEPT !.out = Append(acc.out,
              [status |-> status.Status,
               start_time |-> status.Time[1] - global_t_min,
               end_time |-> None])]

\* lines 241-251 for one record; timedelta.total_seconds raises for a
\* Time that is no timedelta (NaT)
StatusBody(acc, status, global_t_min) ==
    IF acc.exc # "" THEN acc
    ELSE IF status.Time = None THEN [acc EXCEPT !.exc = "TypeError"]
    ELSE LET start_time == status.Time[1] - global_t_min
             n == Len(acc.out)
             closed == IF n > 0
                       THEN [acc.out EXCEPT ![n].end_time = Some(start_time)]
                       ELSE acc.out
         IN  [acc EXCEPT !.out = Append(closed,
                  [status |-> status.Status,
                   start_time |-> start_time,
                   end_time |-> None])]

RECURSIVE StatusLoop(_, _, _)
StatusLoop(acc, records, global_t_min) ==
    IF records = <<>> THEN acc
    ELSE StatusLoop(StatusBody(acc, Head(records), global_t_min),
                    Tail(records), global_t_min)

\* lines 237-253; track_status is None when the session has no status log
TrackStatuses(track_status, global_t_min) ==
    IF track_status = None THEN <<>>
    ELSE StatusLoop([out |-> <<>>, exc |-> ""], track_status[1], global_t_min).out

\* ------------------------------------------------------------ 5. frames
\* lines 259-273: one entry per resampled driver, in resampled_data's order
FrameDrivers(resampled, i) ==
    [k \in 1..Len(resampled) |->
        LET d == resampled[k][2]
        IN  <<resampled[k][1],
              [x |-> d.x[i], y |-> d.y[i], dist |-> d.dist[i],
               lap |-> round(d.lap[i]), rel_dist |-> d.rel_dist[i],
               tyre |-> d.tyre[i], speed |-> d.speed[i],
               gear |-> round(d.gear[i]), drs |-> round(d.drs[i])]>>]

\* faulty variant of InsertDesc: no sorting, input order kept
InsertDesc_Unsorted(sorted, e) == Append(sorted, e)

\* where sorted(..., reverse=True) puts e among the already sorted: behind
\* every element whose key is >= its own (equal keys keep their input order)
InsertDesc(sorted, e) ==
    LET n == Cardinality({k \in 1..Len(sorted) : ~QLess(sorted[k][2].dist, e[2].dist)})
    IN  SubSeq(sorted, 1, n) \o <<e>> \o SubSeq(sorted, n + 1, Len(sorted))

\* lines 279-282: sorted(snapshot, key=dist, reverse=True)
RECURSIVE SortedDesc(_)
SortedDesc(items) ==
    IF items = <<>> THEN <<>>
    ELSE InsertDesc(SortedDesc(SubSeq(items, 1, Len(items) - 1)), items[Len(items)])

\* faulty variant of PositionOf: the 0-based index itself
PositionOf_ZeroBased(idx) == idx

\* line 296
PositionOf(idx) == idx + 1

\* lines 287-300: frame_data, in snapshot order (idx is 0-based in the code)
FrameData(snapshot) ==
    [k \in 1..Len(snapshot) |->
        LET car == snapshot[k][2]
        IN  <<snapshot[k][1],
              [x |-> car.x, y |-> car.y, dist |-> car.dist, lap |-> car.lap,
               rel_dist |-> round4(car.rel_dist), tyre |-> car.tyre,
               position |-> PositionOf(k - 1), speed |-> car.speed,
               gear |-> car.gear, drs |-> car.drs]>>]

\* lines 257-302 for the tick of index i
Frame(timeline, resampled, i) ==
    LET snapshot == SortedDesc(FrameDrivers(resampled, i))
    IN  [t |-> timeline[i],
         lap |-> snapshot[1][2].lap,
         drivers |-> FrameData(snapshot)]

\* lines 256-302: no frame for a tick without drivers
BuildFrames(timeline, resampled) ==
    IF resampled = <<>> THEN <<>>
    ELSE [i \in 1..Len(timeline) |-> Frame(timeline, resampled, i)]

\* ------------------------------------------------------------- payload
\* lines 27-36: "#rrggbb" to (r, g, b); a colour is its six hex digits
get_driver_colors(color_mapping) ==
    [k \in 1..Len(color_mapping) |->
        LET h == color_mapping[k][2]
        IN  <<color_mapping[k][1],
              <<16 * h[1] + h[2], 16 * h[3] + h[4], 16 * h[5] + h[6]>>>>]

\* lines 307-312
Payload(fr, colors, statuses, max_lap) ==
    [frames |-> fr,
     driver_colors |-> colors,
     track_statuses |-> statuses,
     total_laps |-> max_lap]

\* --------------------------------------------------------------- cache
\* the cache file: missing, unreadable, or a JSON document
NoFile == [kind |-> "missing", doc |-> None]
Corrupt == [kind |-> "corrupt", doc |-> None]

\* json.dump / json.load: the document is the payload's JSON text; on the
\* values a payload holds (dict, list, int, float, str, None) loading it
\* gives the same structure back
json_dump(payload) == [json |-> payload]
json_load(doc) == doc.json

\* lines 54-63
_load_cached(f) ==
    IF f.kind = "missing" THEN None
    ELSE IF f.kind = "corrupt" THEN None          \* except: return None
    ELSE Some(json_load(f.doc[1]))

\* lines 65-72 and 314-318: the file after the attempt.  "ok": written;
\* "open": makedirs or open raises, nothing changes; "dump": the file was
\* opened (truncated) and json.dump raises part-way
_save_cached(f, payload, outcome) ==
    CASE outcome = "ok" -> [kind |-> "doc", doc |-> Some(json_dump(payload))]
      [] outcome = "open" -> f
      [] outcome = "dump" -> Corrupt

\* faulty variant of UseCache: the refresh flag is ignored
UseCache_IgnoreRefresh(refresh, cached) == cached # None

\* line 79: "--refresh-data" not in os.sys.argv, and line 81: if cached (a
\* stored document is a payload, a dict of four keys, hence truthy)
UseCache(refresh, cached) == ~refresh /\ cached # None

\* ----------------------------------------------------------- the inputs
\* One telemetry row.  The channels other than time and distance follow
\* from the distance, each with values of its own so that a fallback to
\* another channel or to zeros shows.
Row(t, d) ==
    [SessionTime |-> t, X |-> 100 + d, Y |-> 200 - d, Distance |-> d,
     RelativeDistance |-> IF d > 0 THEN 1 ELSE 0,
     Speed |-> 50 + d, SpeedKph |-> 80 + d,
     nGear |-> 1 + (d \div 5), DRS |-> 8 + (d \div 5)]

StdCols == AllCols \ {"SpeedKph"}

Tel(rows, cols, xdim) == [raises |-> FALSE, cols |-> cols, rows |-> rows, xdim |-> xdim]
TelRaises == [raises |-> TRUE, cols |-> {}, rows |-> <<>>, xdim |-> 1]
TelEmpty == Tel(<<>>, StdCols, 1)

Lap(number, tel) ==
    [LapNumber |-> number,
     Compound |-> IF number = 1 THEN "SOFT" ELSE "MEDIUM",
     tel |-> tel]

Laps(seq) == [raises |-> FALSE, laps |-> seq]
LapsRaise == [raises |-> TRUE, laps |-> <<>>]

Names == <<"VER", "HAM", "LEC", "NOR">>
Abbreviation(num) == IF num <= Len(Names) THEN Some(Names[num]) ELSE None

\* fastf1's colour of a driver, as six hex digits
Hex(num) == <<num % 16, 0, 15, 15, 0, (2 * num) % 16>>

Session(lapsOf, abbr, track_status) ==
    [drivers |-> [k \in 1..Len(lapsOf) |-> k],
     abbr |-> abbr,
     laps |-> lapsOf,
     track_status |-> track_status,
     color_mapping |-> [k \in 1..Len(lapsOf) |-> <<Names[k], Hex(k)>>]]

StdAbbr(n) == [k \in 1..n |-> Abbreviation(k)]

OneCall == [argv |-> <<FALSE>>, write |-> <<"ok">>]

SeqsUpTo(S, n) == UNION {[1..k -> S] : k \in 0..n}

\* -- race family: up to MaxDrivers drivers, one lap each (lap number = the
\*    driver's number), a single sample or a first and a later sample
Times == 0..3
RaceTraces ==
    {<<Row(t, 5)>> : t \in Times}
    \cup {<<Row(t1, 0), Row(t2, d)>> : t1 \in {0, 1}, t2 \in Times, d \in {0, 5}}
RaceStints == {st \in RaceTraces : Len(st) = 1 \/ st[1].SessionTime < st[2].SessionTime}
RaceSessionsOf(n) ==
    {Session([k \in 1..n |-> Laps(<<Lap(k, Tel(f[k], StdCols, 1))>>)], StdAbbr(n), None) :
        f \in [1..n -> RaceStints]}
RaceSessions == UNION {RaceSessionsOf(n) : n \in 1..MaxDrivers}

\* -- lap family: one driver, up to MaxLaps laps.  The telemetry of lap k
\*    fails, is empty, or has one of these shapes: its distances, and the
\*    time of its first sample relative to 2k (samples are one quantum
\*    apart; a shift of -1 ties its first sample with the previous lap's
\*    last, a shift of -3 puts the lap before the previous one)
LapShapes == {<<<<0, 10>>, 0>>, <<<<0, 5>>, 0>>, <<<<0, 5>>, -1>>, <<<<5>>, -3>>}
LapTel(k, shape) ==
    Tel([j \in 1..Len(shape[1]) |-> Row(2 * k + shape[2] + j - 1, shape[1][j])],
        StdCols, 1)
LapChoices == {<<"raises">>, <<"empty">>} \cup {<<"ok", sh>> : sh \in LapShapes}
LapOf(k, c) ==
    Lap(k, IF c[1] = "raises" THEN TelRaises
           ELSE IF c[1] = "empty" THEN TelEmpty
           ELSE LapTel(k, c[2]))
LapSessions ==
    {Session(<<Laps([k \in 1..Len(f) |-> LapOf(k, f[k])])>>, StdAbbr(1), None) :
        f \in SeqsUpTo(LapChoices, MaxLaps)}

\* -- channel family: driver 1's lap has any set of optional columns, or
\*    lacks one required column; driver 2's lap is complete
RowsA == <<Row(0, 0), Row(2, 5)>>
RowsB == <<Row(1, 0), Row(3, 10)>>
ChannelCols ==
    {Required \cup S : S \in SUBSET Optional}
    \cup {AllCols \ {r} : r \in Required}
ChannelSessions ==
    {Session(<<Laps(<<Lap(1, Tel(RowsA, cols, 1))>>),
               Laps(<<Lap(1, Tel(RowsB, StdCols, 1))>>)>>, StdAbbr(2), None) :
        cols \in ChannelCols}

\* -- failure family: every driver is one of these
DriverKinds ==
    {LapsRaise,
     Laps(<<>>),
     Laps(<<Lap(3, TelRaises)>>),
     Laps(<<Lap(3, TelRaises), Lap(4, TelEmpty)>>),
     Laps(<<Lap(1, Tel(RowsA, StdCols, 1))>>),
     Laps(<<Lap(2, Tel(RowsB, StdCols, 1))>>),
     Laps(<<Lap(1, Tel(RowsA, StdCols, 2))>>),
     Laps(<<Lap(1, Tel(RowsA, StdCols, 1)), Lap(2, Tel(RowsB, StdCols, 2))>>),
     Laps(<<Lap(1, Tel(RowsA, StdCols \ {"nGear"}, 1))>>)}
FailureSessions ==
    UNION {{Session(f, StdAbbr(n), None) : f \in [1..n -> DriverKinds]} :
              n \in 1..MaxDrivers}
    \cup {Session(<<Laps(<<Lap(1, Tel(RowsA, StdCols, 1))>>)>>, <<None>>, None)}

\* -- status family: one driver, a status log of up to MaxEvents records
StatusRecords ==
    {[Time |-> Some(t), Status |-> st] : t \in {0, 1, 4}, st \in {"1", "4"}}
    \cup {[Time |-> None, Status |-> "1"]}
StatusSessions ==
    {Session(<<Laps(<<Lap(1, Tel(RowsB, StdCols, 1))>>)>>, StdAbbr(1), Some(log)) :
        log \in SeqsUpTo(StatusRecords, MaxEvents)}

\* -- cache family: up to MaxCalls calls for one session, each with or
\*    without "--refresh-data" and with its write succeeding or failing
CacheSessions ==
    {Session(<<Laps(<<Lap(1, Tel(RowsA, StdCols, 1))>>)>>, StdAbbr(1), None),
     Session(<<Laps(<<Lap(1, TelEmpty)>>)>>, StdAbbr(1), None)}
CallSeqs ==
    UNION {{[argv |-> a, write |-> w] :
               a \in [1..k -> BOOLEAN], w \in [1..k -> {"ok", "open", "dump"}]} :
              k \in 1..MaxCalls}

Inputs ==
    ((RaceSessions \cup LapSessions \cup ChannelSessions \cup FailureSessions
        \cup StatusSessions) \X {OneCall} \X {NoFile})
    \cup (CacheSessions \X CallSeqs \X {NoFile, Corrupt})

VARIABLES
    session,        \* the loaded session (the provider's data)
    env,            \* per call: "--refresh-data" in argv, outcome of the write
    file,           \* the cache file of this session
    call,           \* number of calls of get_race_telemetry begun
    pc,             \* where the current call is
    idx,            \* the driver loop's position in session.drivers
    driver_data,
    parts,
    g,              \* [min |-> global_t_min, max |-> global_t_max]
    max_lap_number,
    timeline,
    resampled_data,
    formatted_track_statuses,
    frames,
    ret,            \* the value the last call returned
    exc             \* the exception the last call raised

vars == <<session, env, file, call, pc, idx, driver_data, parts, g,
          max_lap_number, timeline, resampled_data, formatted_track_statuses,
          frames, ret, exc>>

locals == <<idx, driver_data, parts, g, max_lap_number, timeline,
            resampled_data, formatted_track_statuses, frames>>

\* the locals of a call before line 86
FreshLocals ==
    /\ idx = 1
    /\ driver_data = <<>>
    /\ parts = EmptyParts
    /\ g = [min |-> None, max |-> None]
    /\ max_lap_number = 0
    /\ timeline = <<>>
    /\ resampled_data = <<>>
    /\ formatted_track_statuses = <<>>
    /\ frames = <<>>

\* lines 96-99 (and the other locals of a call, not yet assigned)
ResetLocals ==
    /\ idx' = 1
    /\ driver_data' = <<>>
    /\ parts' = EmptyParts
    /\ g' = [min |-> None, max |-> None]
    /\ max_lap_number' = 0
    /\ timeline' = <<>>
    /\ resampled_data' = <<>>
    /\ formatted_track_statuses' = <<>>
    /\ frames' = <<>>

Init ==
    /\ \E in \in Inputs : session = in[1] /\ env = in[2] /\ file = in[3]
    /\ call = 0
    /\ pc = "idle"
    /\ FreshLocals
    /\ ret = None
    /\ exc = ""

\* lines 89-94 and 103
Code(driver_no) ==
    IF session.abbr[driver_no] = None THEN ToString(driver_no)
    ELSE session.abbr[driver_no][1]

Entry == pc \in {"idle", "returned", "raised"} /\ call < Len(env.argv)

\* lines 78-84: the stored document is returned
CacheHit ==
    /\ Entry
    /\ UseCache(env.argv[call + 1], _load_cached(file))
    /\ call' = call + 1
    /\ ret' = _load_cached(file)
    /\ exc' = ""
    /\ pc' = "returned"
    /\ ResetLocals
    /\ UNCHANGED <<session, env, file>>

\* lines 78-99: no usable stored document, or a refresh is asked for
BeginCompute ==
    /\ Entry
    /\ ~UseCache(env.argv[call + 1], _load_cached(file))
    /\ call' = call + 1
    /\ ret' = None
    /\ exc' = ""
    /\ pc' = "drivers"
    /\ ResetLocals
    /\ UNCHANGED <<session, env, file>>

InLoop == pc = "drivers" /\ idx <= Len(session.drivers)
driver_no == session.drivers[idx]
laps_driver == session.laps[driver_no]
assembled == AssembleLaps(laps_driver.laps)

\* lines 106-110: pick_drivers raises
DriverLapsRaise ==
    /\ InLoop /\ laps_driver.raises
    /\ idx' = idx + 1
    /\ UNCHANGED <<session, env, file, call, pc, driver_data, parts, g,
                   max_lap_number, timeline, resampled_data,
                   formatted_track_statuses, frames, ret, exc>>

\* lines 112-113
DriverNoLaps ==
    /\ InLoop /\ ~laps_driver.raises /\ laps_driver.laps = <<>>
    /\ idx' = idx + 1
    /\ UNCHANGED <<session, env, file, call, pc, driver_data, parts, g,
                   max_lap_number, timeline, resampled_data,
                   formatted_track_statuses, frames, ret, exc>>

HasLaps == InLoop /\ ~laps_driver.raises /\ laps_driver.laps # <<>>

\* lines 135-142 raise: nothing catches it, the call ends with the exception
DriverRaises ==
    /\ HasLaps /\ assembled.exc # ""
    /\ max_lap_number' = Max(max_lap_number, LapNumberMax(laps_driver.laps))
    /\ exc' = assembled.exc
    /\ pc' = "raised"
    /\ UNCHANGED <<session, env, file, call, idx, driver_data, parts, g,
                   timeline, resampled_data, formatted_track_statuses, frames, ret>>

\* lines 160-161: no lap gave samples
DriverNoTelemetry ==
    /\ HasLaps /\ assembled.exc = "" /\ assembled.parts.t = <<>>
    /\ max_lap_number' = Max(max_lap_number, LapNumberMax(laps_driver.laps))
    /\ parts' = assembled.parts
    /\ idx' = idx + 1
    /\ UNCHANGED <<session, env, file, call, pc, driver_data, g, timeline,
                   resampled_data, formatted_track_statuses, frames, ret, exc>>

\* lines 164-184: the concatenation raises
DriverConcatFails ==
    /\ HasLaps /\ assembled.exc = "" /\ assembled.parts.t # <<>>
    /\ ConcatRaises(assembled.parts)
    /\ max_lap_number' = Max(max_lap_number, LapNumberMax(laps_driver.laps))
    /\ parts' = assembled.parts
    /\ idx' = idx + 1
    /\ UNCHANGED <<session, env, file, call, pc, driver_data, g, timeline,
                   resampled_data, formatted_track_statuses, frames, ret, exc>>

\* lines 102-202: the driver's trace is stored
DriverKept ==
    /\ HasLaps /\ assembled.exc = "" /\ assembled.parts.t # <<>>
    /\ ~ConcatRaises(assembled.parts)
    /\ \E order \in argsort(Concat(assembled.parts.t)) :
          LET trace == Trace(assembled.parts, order)
          IN  /\ driver_data' = DictSet(driver_data, Code(driver_no), trace)
              /\ g' = AccumulateBounds(g, trace.t)
    /\ max_lap_number' = Max(max_lap_number, LapNumberMax(laps_driver.laps))
    /\ parts' = assembled.parts
    /\ idx' = idx + 1
    /\ UNCHANGED <<session, env, file, call, pc, timeline, resampled_data,
                   formatted_track_statuses, frames, ret, exc>>

LoopDone == pc = "drivers" /\ idx > Len(session.drivers)

\* line 204
NoDriverData(dd, gb) == dd = <<>> \/ gb.min = None \/ gb.max = None

\* lines 204-205
RaiseNoData ==
    /\ LoopDone /\ NoDriverData(driver_data, g)
    /\ exc' = "ValueError"
    /\ pc' = "raised"
    /\ UNCHANGED <<session, env, file, call, locals, ret>>

\* lines 207-208
BuildTimeline ==
    /\ LoopDone /\ ~NoDriverData(driver_data, g)
    /\ timeline' = Timeline(g.min[1], g.max[1])
    /\ pc' = "resample"
    /\ UNCHANGED <<session, env, file, call, idx, driver_data, parts, g,
                   max_lap_number, resampled_data, formatted_track_statuses,
                   frames, ret, exc>>

\* lines 210-234
Resample ==
    /\ pc = "resample"
    /\ resampled_data' \in ResampleLoop(driver_data, g.min[1], timeline)
    /\ pc' = "status"
    /\ UNCHANGED <<session, env, file, call, idx, driver_data, parts, g,
                   max_lap_number, timeline, formatted_track_statuses,
                   frames, ret, exc>>

\* lines 236-253
TrackStatus ==
    /\ pc = "status"
    /\ formatted_track_statuses' = TrackStatuses(session.track_status, g.min[1])
    /\ pc' = "frames"
    /\ UNCHANGED <<session, env, file, call, idx, driver_data, parts, g,
                   max_lap_number, timeline, resampled_data, frames, ret, exc>>

\* lines 255-302
Frames ==
    /\ pc = "frames"
    /\ frames' = BuildFrames(timeline, resampled_data)
    /\ pc' = "save"
    /\ UNCHANGED <<session, env, file, call, idx, driver_data, parts, g,
                   max_lap_number, timeline, resampled_data,
                   formatted_track_statuses, ret, exc>>

\* lines 307-321
SaveAndReturn ==
    /\ pc = "save"
    /\ LET payload == Payload(frames, get_driver_colors(session.color_mapping),
                              formatted_track_statuses, max_lap_number)
       IN  /\ file' = _save_cached(file, payload, env.write[call])
           /\ ret' = Some(payload)
    /\ pc' = "returned"
    /\ UNCHANGED <<session, env, call, locals, exc>>

Next ==
    \/ CacheHit
    \/ BeginCompute
    \/ DriverLapsRaise
    \/ DriverNoLaps
    \/ DriverRaises
    \/ DriverNoTelemetry
    \/ DriverConcatFails
    \/ DriverKept
    \/ RaiseNoData
    \/ BuildTimeline
    \/ Resample
    \/ TrackStatus
    \/ Frames
    \/ SaveAndReturn

Spec == Init /\ [][Next]_vars
\* ======================================================================
\* The claims
\* ======================================================================
\* the current call computed its result (it did not return the stored one)
Computed == pc = "returned" /\ timeline # <<>>

Positions(fr) == {fr.drivers[k][2].position : k \in 1..Len(fr.drivers)}
Codes(fr) == {fr.drivers[k][1] : k \in 1..Len(fr.drivers)}
Entry_(fr, code) == fr.drivers[CHOOSE k \in 1..Len(fr.drivers) : fr.drivers[k][1] = code][2]

\* the frames a call hands out: the ones it built, and the ones it returned
Emitted == IF ret = None THEN frames ELSE ret[1].frames

DenseRanking(fr) ==
    /\ Cardinality(Codes(fr)) = Len(fr.drivers)
    /\ Positions(fr) = 1..Len(fr.drivers)
    /\ \A a, b \in Codes(fr) :
          QLess(Entry_(fr, b).dist, Entry_(fr, a).dist)
             => Entry_(fr, a).position < Entry_(fr, b).position

\* C1: in every frame the positions are exactly 1..k, without repeats, for
\* the k drivers of the frame (one per resampled driver), and a driver with a
\* greater cumulative distance has a smaller position number.
C1_DensePositions ==
    /\ \A i \in 1..Len(frames) :
          DenseRanking(frames[i]) /\ Len(frames[i].drivers) = Len(resampled_data)
    /\ \A i \in 1..Len(Emitted) : DenseRanking(Emitted[i])

C1_Witness ==
    /\ Computed
    /\ \E i \in 1..Len(frames) :
          /\ Len(frames[i].drivers) >= 2
          /\ \E a, b \in Codes(frames[i]) :
                /\ QLess(Entry_(frames[i], b).dist, Entry_(frames[i], a).dist)
                /\ DictGet(resampled_data, b) < DictGet(resampled_data, a)

TimelineBuilt == timeline # <<>>
Span == g.max[1] - g.min[1]

ConstantStep ==
    /\ timeline[1] = 0
    /\ \A k \in 1..(Len(timeline) - 1) : timeline[k + 1] - timeline[k] = DT

\* C2 as stated: the length is floor((global_max - global_min)/dt) + 2 for
\* every pair of bounds, exact multiples of dt included.
C2_Original ==
    TimelineBuilt => ConstantStep /\ Len(timeline) = (Span \div DT) + 2

\* C2 as amended: timeline[0] = 0, the step is dt, and the length is
\* ceil((global_max - global_min)/dt) + 1: floor(...) + 2 when the span is no
\* multiple of dt, floor(...) + 1 when it is one; the last tick is the first
\* one at or after the span.
C2_TimelineLength ==
    TimelineBuilt =>
        /\ ConstantStep
        /\ Len(timeline) = (Span \div DT) + (IF Span % DT = 0 THEN 1 ELSE 2)
        /\ timeline[Len(timeline)] >= Span
        /\ timeline[Len(timeline)] < Span + DT

C2_Witness == TimelineBuilt /\ Span > 0 /\ Span % DT = 0 /\ pc = "returned"

Usable(lap) == ~lap.tel.raises /\ ~empty(lap.tel)
HasUsableLap(d) ==
    /\ ~session.laps[d].raises
    /\ \E k \in 1..Len(session.laps[d].laps) : Usable(session.laps[d].laps[k])
DriverNos == 1..Len(session.drivers)

\* C3: the call raises only when no driver has a usable trace; a failure of
\* one lap's channel extraction is caught and the other drivers are
\* processed.
C3_AbortsOnlyWithoutData ==
    pc = "raised" => exc = "ValueError" /\ \A d \in DriverNos : ~HasUsableLap(d)

WellFormedLog(log) == \A k \in 1..Len(log) : log[k].Time # None

Intervals(log, out) ==
    /\ Len(out) = Len(log)
    /\ \A k \in 1..Len(log) :
          /\ out[k].status = log[k].Status
          /\ out[k].start_time = log[k].Time[1] - g.min[1]
          /\ out[k].end_time =
                IF k < Len(log) THEN Some(out[k + 1].start_time) ELSE None

\* C4: a status log of n records gives n intervals in the log's order, each
\* starting at its record's time minus global_min and ending where the next
\* one starts, the last one with no end; without a status log the list is
\* empty, and the frame list is not (whenever a driver was resampled).
C4_StatusIntervals ==
    Computed =>
        /\ ret[1].track_statuses = formatted_track_statuses
        /\ IF session.track_status = None
           THEN /\ formatted_track_statuses = <<>>
                /\ resampled_data # <<>> => ret[1].frames # <<>>
           ELSE WellFormedLog(session.track_status[1])
                   => Intervals(session.track_status[1], formatted_track_statuses)

C4_Witness ==
    /\ Computed
    /\ session.track_status # None
    /\ Len(formatted_track_statuses) = 2
    /\ formatted_track_statuses[1].start_time < 0
    /\ formatted_track_statuses[1].end_time = Some(3)
    /\ formatted_track_statuses[2].end_time = None

Permute(dd, p) == [k \in 1..Len(dd) |-> dd[p[k]]]

\* lines 199-202 over the drivers in the order of dd
RECURSIVE BoundsOver(_)
BoundsOver(dd) ==
    IF dd = <<>> THEN [min |-> None, max |-> None]
    ELSE AccumulateBounds(BoundsOver(SubSeq(dd, 1, Len(dd) - 1)), dd[Len(dd)][2].t)

\* Processing the drivers in another order changes the order of the keys of
\* driver_data and resampled_data (a key is added when its driver is
\* processed) and the order in which the time bounds are accumulated, and
\* nothing else: each driver's trace comes from its own laps alone.
SameInAnyOrder ==
    /\ \A p \in IndexOrders(Len(driver_data)) : BoundsOver(Permute(driver_data, p)) = g
    /\ \A p \in IndexOrders(Len(resampled_data)) :
          BuildFrames(timeline, Permute(resampled_data, p)) = frames

NoTies ==
    \A i \in 1..Len(timeline) : \A a, b \in 1..Len(resampled_data) :
        a # b => resampled_data[a][2].dist[i] # resampled_data[b][2].dist[i]

\* C5 as stated: any order of the drivers gives the same frames, also when
\* two drivers have exactly the same cumulative distance at a tick.
C5_Original == Computed => SameInAnyOrder

\* C5 as amended: any order of the drivers gives the same time bounds and
\* timeline, and the same frames (positions and leader lap included)
\* provided no two drivers have exactly the same cumulative distance at a
\* tick; drivers tied at a tick are ranked in processing order.
C5_OrderIndependent ==
    Computed =>
        /\ \A p \in IndexOrders(Len(driver_data)) :
              BoundsOver(Permute(driver_data, p)) = g
        /\ NoTies => SameInAnyOrder
        /\ \A i \in 1..Len(frames) : \A a, b \in 1..Len(resampled_data) :
              (a < b /\ resampled_data[a][2].dist[i] = resampled_data[b][2].dist[i])
                 => Entry_(frames[i], resampled_data[a][1]).position
                      < Entry_(frames[i], resampled_data[b][1]).position

C5_Witness ==
    /\ Computed /\ NoTies /\ Len(resampled_data) >= 2
    /\ \E i \in 1..Len(frames) :
          frames[i].drivers[1][1] # resampled_data[1][1]

NewCall == call' = call + 1
Refresh == env.argv[call']

\* C6: a call with the refresh flag recomputes and never returns the stored
\* document; a call without it returns a readable stored document unchanged
\* and recomputes when the file is missing or unreadable; a computed payload
\* is returned whatever the write does, and after a successful write the
\* stored document is that payload; a failed write leaves the old file or an
\* unreadable one, and no call raises for a cache failure.
C6_CacheProtocol ==
    [][/\ (NewCall /\ Refresh) => pc' = "drivers"
       /\ (NewCall /\ ~Refresh /\ file.kind = "doc")
             => pc' = "returned" /\ ret' = Some(json_load(file.doc[1])) /\ file' = file
       /\ (NewCall /\ ~Refresh /\ file.kind # "doc") => pc' = "drivers"
       /\ pc = "save"
             => /\ pc' = "returned"
                /\ ret' = Some(Payload(frames, get_driver_colors(session.color_mapping),
                                       formatted_track_statuses, max_lap_number))
                /\ env.write[call] = "ok"
                      => file' = [kind |-> "doc", doc |-> Some(json_dump(ret'[1]))]
                /\ env.write[call] # "ok" => file' \in {file, Corrupt}
       /\ pc' = "raised" => exc' \in {"ValueError", "KeyError", "AttributeError"}
                            /\ pc \in {"drivers"}
      ]_vars

C6_Witness ==
    /\ call = 2 /\ pc = "returned"
    /\ env.argv = <<FALSE, TRUE>> /\ env.write = <<"ok", "dump">>
    /\ Computed
    /\ file = Corrupt

SetMax(S) == CHOOSE m \in S : \A v \in S : v <= m

ZeroUsable(d) == ~HasUsableLap(d)
InNoFrame(code) == \A i \in 1..Len(frames) : code \notin Codes(frames[i])

\* the bounds come from the retained traces alone
BoundsFromRetained ==
    /\ g.min[1] = SetMax({-SeqMin(driver_data[k][2].t) : k \in 1..Len(driver_data)}) * (-1)
    /\ g.max[1] = SetMax({SeqMax(driver_data[k][2].t) : k \in 1..Len(driver_data)})
    /\ timeline = Timeline(g.min[1], g.max[1])

Excluded(d) ==
    /\ Code(d) \notin DictKeySet(driver_data)
    /\ Code(d) \notin DictKeySet(resampled_data)
    /\ InNoFrame(Code(d))

HighestLap(d) ==
    SetMax({session.laps[d].laps[k].LapNumber : k \in 1..Len(session.laps[d].laps)})

\* C7 as stated: a driver without a usable lap is in no frame, does not
\* influence the time bounds or the timeline, and does not contribute to
\* total_laps.
C7_Original ==
    Computed =>
        /\ \A d \in DriverNos : ZeroUsable(d) => Excluded(d)
        /\ BoundsFromRetained
        /\ ret[1].total_laps =
              SetMax({0} \cup {HighestLap(d) : d \in {e \in DriverNos : HasUsableLap(e)}})

\* C7 as amended: such a driver is in no frame and does not influence the
\* time bounds or the timeline; it contributes nothing to total_laps when it
\* has no laps (or its lap lookup fails), but when it has laps that were all
\* skipped its highest lap number still counts: total_laps is the highest lap
\* number over all drivers that have laps.
C7_ZeroUsableExcluded ==
    Computed =>
        /\ \A d \in DriverNos : ZeroUsable(d) => Excluded(d)
        /\ BoundsFromRetained
        /\ ret[1].total_laps =
              SetMax({0} \cup {HighestLap(d) :
                        d \in {e \in DriverNos : ~session.laps[e].raises
                                                 /\ session.laps[e].laps # <<>>}})

C7_Witness ==
    /\ Computed
    /\ \E d \in DriverNos :
          /\ ZeroUsable(d) /\ ~session.laps[d].raises /\ session.laps[d].laps # <<>>
          /\ ret[1].total_laps = HighestLap(d)
          /\ \A e \in DriverNos \ {d} : HasUsableLap(e) /\ HighestLap(e) < HighestLap(d)

\* the drivers whose laps the loop has assembled so far in this call
Assembled ==
    {k \in 1..(idx - 1) : ~session.laps[k].raises /\ session.laps[k].laps # <<>>}
UsableLaps(d) == SelectSeq(session.laps[d].laps, Usable)
LastOf(arr) == arr[Len(arr)]

\* C8: in parts, every sample's cumulative distance is its lap-local distance
\* plus the last cumulative distance of the previous usable lap (0 for the
\* first); skipped laps change nothing: parts is what the usable laps alone
\* give.  Laps [0,10] and [0,5] give [0,10,10,15].
C8_CumulativeDistance ==
    IF Assembled = {} THEN parts = EmptyParts
    ELSE LET U == UsableLaps(SetMax(Assembled))
         IN  /\ Len(parts.dist) = Len(U)
             /\ \A m \in 1..Len(U) :
                   /\ Len(parts.dist[m]) = Len(U[m].tel.rows)
                   /\ \A j \in 1..Len(U[m].tel.rows) :
                         parts.dist[m][j] =
                            U[m].tel.rows[j].Distance
                              + (IF m = 1 THEN 0 ELSE LastOf(parts.dist[m - 1]))
             /\ parts = AssembleLaps(U).parts
             /\ (Len(U) = 2 /\ Column(U[1].tel, "Distance") = <<0, 10>>
                   /\ Column(U[2].tel, "Distance") = <<0, 5>>)
                  => Concat(parts.dist) = <<0, 10, 10, 15>>

C8_Witness ==
    /\ Assembled # {}
    /\ LET laps == session.laps[SetMax(Assembled)].laps
       IN  /\ Len(laps) = 3
           /\ Usable(laps[1]) /\ ~Usable(laps[2]) /\ Usable(laps[3])
    /\ parts.dist = <<<<0, 10>>, <<10, 15>>>>

FallbackCovers(lap_tel) ==
    /\ Required \subseteq lap_tel.cols
    /\ "Speed" \in lap_tel.cols \/ "SpeedKph" \in lap_tel.cols

\* C9: a non-empty lap that lacks optional channels is assembled without
\* error (relative distance from Distance, Speed from the alternate speed
\* channel when present, Gear and DRS as zeros): the call raises in the
\* channel extraction only for a lap that lacks a required column or both
\* speed channels.
C9_OptionalChannelFallback ==
    (pc = "raised" /\ exc # "ValueError") =>
        \E k \in 1..Len(laps_driver.laps) :
            Usable(laps_driver.laps[k]) /\ ~FallbackCovers(laps_driver.laps[k].tel)

ChannelNames == {"x", "y", "dist", "rel_dist", "lap", "tyre", "speed", "gear", "drs"}

\* every resampled channel of r at tick i is the trace's sample k
HoldsSample(r, i, data, k) == \A ch \in ChannelNames : r[ch][i] = Q(data[ch][k])

ClampedAt(r, data, i) ==
    LET n == Len(data.t)
    IN  /\ timeline[i] > data.t[n] - g.min[1]
           => \E k \in 1..n : data.t[k] = data.t[n] /\ HoldsSample(r, i, data, k)
        /\ timeline[i] < data.t[1] - g.min[1]
           => \E k \in 1..n : data.t[k] = data.t[1] /\ HoldsSample(r, i, data, k)

StoppedBefore(code, i) ==
    LET data == DictVal(driver_data, code)
    IN  timeline[i] > data.t[Len(data.t)] - g.min[1]

\* C10: at a tick after a driver's last sample every resampled channel has
\* the value of its last sample, at a tick before its first sample that of
\* its first; and at a tick after B's last sample where A's cumulative
\* distance is greater than B's (frozen) one, B's position number is greater
\* than A's.
C10_ClampAndRank ==
    /\ \A e \in 1..Len(resampled_data) : \A i \in 1..Len(timeline) :
          ClampedAt(resampled_data[e][2], DictVal(driver_data, resampled_data[e][1]), i)
    /\ \A i \in 1..Len(frames) : \A a, b \in Codes(frames[i]) :
          (StoppedBefore(b, i)
             /\ QLess(DictVal(resampled_data, b).dist[i], DictVal(resampled_data, a).dist[i]))
            => /\ Entry_(frames[i], b).position > Entry_(frames[i], a).position
               /\ Entry_(frames[i], b).dist = DictVal(resampled_data, b).dist[i]

C10_Witness ==
    /\ Computed /\ Len(resampled_data) = 2
    /\ \E i \in 1..Len(frames) :
          LET b == resampled_data[1][1]
              a == resampled_data[2][1]
          IN  /\ StoppedBefore(b, i) /\ ~StoppedBefore(a, i)
              /\ QLess(Entry_(frames[i], b).dist, Entry_(frames[i], a).dist)
              /\ Entry_(frames[i], b).position = 2
              /\ \E j \in 1..(i - 1) :
                    Entry_(frames[j], b).position = 1

====
